---- MODULE Spec2Model ----
(***************************************************************************)
(* preprocess.py: Guitar Pro 5 + MIDI -> JSON note list.                   *)
(*                                                                         *)
(* The model follows one run of the script: the __main__ block (batch over *)
(* the sub-folders of the input directory, or one conversion from argv)    *)
(* and, inside it, parse_gp5_and_midi: Part 1 builds gp5_note_mapping from *)
(* the tablature notes, Part 2 walks every MIDI track message by message,  *)
(* pairs note_on with note_off through per-pitch FIFO queues, sorts the    *)
(* track's notes and finally writes the document.                          *)
(*                                                                         *)
(* The contents of the input files are read as the run goes: each read     *)
(* draws the next tablature note, track or MIDI message from a small set.  *)
(*                                                                         *)
(* Representation of Python values:                                        *)
(*   None / a value v          <<>> / <<v>>                                *)
(*   seconds (float)           the integer  sum(delta * tempo), that is    *)
(*                             seconds * ticks_per_beat * 10^6             *)
(*   msg.velocity / 127.0      the fraction <<velocity, 127>>              *)
(*   f"{name}{octave}"         the pair <<name, octave>>                   *)
(*   dict                      a function whose DOMAIN is the key set      *)
(***************************************************************************)
EXTENDS Integers, Sequences, FiniteSets, TLC

\* ---------------------------------------------------------------- bounds
\* Size of the input files of a run, in items read (tablature notes, MIDI
\* tracks, MIDI messages): of a run that converts one song (argv) ...
MaxInput == 4
\* ... of a batch run, all its songs together ...
MaxBatchInput == 3
\* ... and of one song whose MIDI file holds note messages only.
MaxNotesInput == 5
\* ... and of one song whose reads are recorded as it is converted.
MaxHistInput == 4
\* ... and of the tablature of one song, recorded, with an empty MIDI file.
MaxTabInput == 3
\* ... and of a batch run over three entries, all its songs together.
MaxWideInput == 2

\* ------------------------------------------------------- input alphabets
Entries == {"a", "b"}
WideEntries == {"a", "b", "c"}
Strings == {0, 2, 3, 7}
Frets == {1, 5}
Pitches == {60, 64}
Channels == {0, 9}
Velocities == {0, 100}
ReleaseVelocities == {64}
Deltas == {0, 1}
Tempos == {250000, 1000000}
TimeSignatures == {<<3, 4>>, <<6, 8>>}
TrackNames == {"", "Guitar"}
Stems == {"song"}

\* String numbers and frets on both sides of the ranges 1..6 and 0..24.
TabStrings == {0, 1, 7, 13}
TabFrets == {-1, 0, 25}

None == <<>>
Some(v) == <<v>>

\* ------------------------------------------------------------- constants
STANDARD_TUNING == <<40, 45, 50, 55, 59, 64>>
NOTE_NAMES == <<"C", "C#", "D", "D#", "E", "F", "F#", "G", "G#", "A", "A#", "B">>
DEFAULT_TEMPO == 500000

\* Indexing that takes no negative index.
PyIndexOkNoWrap(list, i) == (0 <= i) /\ (i < Len(list))

\* Python list indexing: list[i] with i counted from the end when negative;
\* IndexError outside -len .. len-1.
PyIndexOk(list, i) == (-Len(list) <= i) /\ (i < Len(list))
PyIndex(list, i) == IF i >= 0 THEN list[i + 1] ELSE list[Len(list) + i + 1]

midi_to_note_name(midi) == <<NOTE_NAMES[(midi % 12) + 1], (midi \div 12) - 1>>

\* mido.tick2second(tick, ticks_per_beat, tempo) = tick * tempo * 1e-6 / ticks_per_beat,
\* kept as the integer tick * tempo.
Tick2Second(tick, tempo) == tick * tempo
\* mido.tempo2bpm(tempo) = 60 * 1e6 / tempo (exact for the tempos drawn).
Tempo2Bpm(tempo) == 60000000 \div tempo

VARIABLES
    argc,      \* len(sys.argv)
    listing,   \* DEFAULT_INPUT_DIR: entry name -> [is_dir, gp5, mid]
    todo,      \* entries folder.iterdir() has not yielded yet
    pc,        \* position of the run
    out,       \* output_file of the conversion in progress (or last finished)
    files,     \* output files written by the run: name -> document
    conv,      \* the process: stdout and the locals of parse_gp5_and_midi
    ref,       \* the same conversion of the same inputs in a process of its own
    nread,     \* input items read so far
    limit,     \* size of the run's input files, in items
    seen       \* what a recorded conversion has read from its two files

vars == <<argc, listing, todo, pc, out, files, conv, ref, nread, limit, seen>>

EmptyMap == [k \in {} |-> {}]

\* The input left to read is bounded by the size of the run's input files.
MoreInput == nread < limit

\* A process that has not called parse_gp5_and_midi yet.
ProcessStart ==
    [stdout |-> <<>>,
     gp5_note_mapping |-> EmptyMap,
     output |-> [meta |-> [title |-> None, tempo |-> None, timeSignature |-> None,
                           tuning |-> STANDARD_TUNING],
                 tracks |-> <<>>],
     note_data_list |-> <<>>,
     note_queue |-> EmptyMap,
     absolute_time_seconds |-> 0,
     absolute_ticks |-> 0,
     tempo_usec |-> DEFAULT_TEMPO,
     channel_percussion |-> {}]

\* Nothing recorded: no tablature note, no MIDI track; stdout0 is the length of
\* stdout when the track being read began.
NothingSeen == [notes |-> <<>>, tracks |-> <<>>, stdout0 |-> 0]

\* An entry of the input directory: a plain file, or a folder with the .gp5
\* file (its stem) and the .mid file the inner loop finds in it, if any.
EntryKinds ==
    {[is_dir |-> FALSE, gp5_file |-> None, midi_file |-> FALSE]}
        \cup [is_dir : {TRUE}, gp5_file : {None} \cup {Some(s) : s \in Stems},
              midi_file : BOOLEAN]

\* DEFAULT_OUTPUT_DIR / (folder.name + ".json")
OutName(folder) == <<folder, ".json">>

\* print(...): one record per message of the script.
Say(c, line) == [c EXCEPT !.stdout = Append(@, line)]

\* ------------------------------------------------ Part 1: gp5_note_mapping
\* gp5_note_mapping kept from the call before (a module-level dict never cleared).
BeginGp5Stale(c) ==
    [ProcessStart EXCEPT !.stdout = c.stdout, !.gp5_note_mapping = c.gp5_note_mapping]

\* Entering parse_gp5_and_midi: the locals of an earlier call are gone, stdout
\* is the process's; then gp5_note_mapping = {}.
BeginGp5(c) == [ProcessStart EXCEPT !.stdout = c.stdout, !.gp5_note_mapping = EmptyMap]

\* STANDARD_TUNING[string_index] raises IndexError.
TabNoteRaises(note) == ~PyIndexOk(STANDARD_TUNING, 6 - note.string)

TabPitch(note) == PyIndex(STANDARD_TUNING, 6 - note.string) + note.value

\* The same body with the later position overwriting the earlier one.
TabNoteLastWins(c, note) ==
    LET midi_pitch == TabPitch(note)
        position == [string |-> note.string, fret |-> note.value]
        conflict == midi_pitch \in DOMAIN c.gp5_note_mapping
                        /\ c.gp5_note_mapping[midi_pitch] # position
        c1 == [c EXCEPT !.gp5_note_mapping =
                            (midi_pitch :> position) @@ c.gp5_note_mapping]
    IN  IF conflict
        THEN Say(c1, [warning |-> "multiple positions",
                      midi_pitch |-> midi_pitch,
                      existing |-> c.gp5_note_mapping[midi_pitch],
                      new |-> position])
        ELSE c1

\* The body of "for note in beat.notes" for a note of a non-percussion track.
TabNote(c, note) ==
    LET string_number == note.string
        fret == note.value
        midi_pitch == TabPitch(note)
        inserted ==
            IF midi_pitch \notin DOMAIN c.gp5_note_mapping
            THEN (midi_pitch :> [string |-> string_number, fret |-> fret])
                     @@ c.gp5_note_mapping
            ELSE c.gp5_note_mapping
        c1 == [c EXCEPT !.gp5_note_mapping = inserted]
    IN  IF midi_pitch \in DOMAIN inserted
        THEN LET existing_mapping == inserted[midi_pitch]
             IN  IF existing_mapping.string # string_number
                    \/ existing_mapping.fret # fret
                 THEN Say(c1, [warning |-> "multiple positions",
                               midi_pitch |-> midi_pitch,
                               existing |-> existing_mapping,
                               new |-> [string |-> string_number, fret |-> fret]])
                 ELSE c1
        ELSE c1

\* The traversal without the test of track.isPercussionTrack.
Gp5NoteAnyTrack(c, note) == IF TabNoteRaises(note) THEN c ELSE TabNote(c, note)

\* One note met by the traversal tracks -> measures -> voices -> beats -> notes;
\* the notes of a percussion track are never reached (continue).
Gp5Note(c, note) == IF note.isPercussionTrack THEN c ELSE TabNote(c, note)

Gp5Notes == [isPercussionTrack : BOOLEAN, string : Strings, value : Frets]
TabNotes == [isPercussionTrack : BOOLEAN, string : TabStrings, value : TabFrets]

\* ------------------------------------------------------ Part 2: the MIDI file
\* output = {...}
BeginMidi(c, title) ==
    [c EXCEPT !.output = [meta |-> [title |-> Some(title), tempo |-> None,
                                    timeSignature |-> None,
                                    tuning |-> STANDARD_TUNING],
                          tracks |-> <<>>]]

\* The matcher's locals set once before the loop over the tracks: only the note
\* list is fresh for each track.
BeginTrackCarried(c) == [c EXCEPT !.note_data_list = <<>>]

\* The locals set at the top of "for track in midi_song.tracks".
BeginTrack(c) ==
    [c EXCEPT !.note_data_list = <<>>,
              !.note_queue = EmptyMap,
              !.absolute_time_seconds = 0,
              !.absolute_ticks = 0,
              !.tempo_usec = DEFAULT_TEMPO,
              !.channel_percussion = {}]

\* The clock set to the delta time instead of advanced by it (= for +=).
AdvanceAssign(c, msg) ==
    [c EXCEPT !.absolute_time_seconds = Tick2Second(msg.time, c.tempo_usec),
              !.absolute_ticks = msg.time]

\* The clock advanced by the delta times of note messages only.
AdvanceNotesOnly(c, msg) ==
    IF msg.type \in {"note_on", "note_off"}
    THEN [c EXCEPT !.absolute_time_seconds = @ + Tick2Second(msg.time, c.tempo_usec),
                   !.absolute_ticks = @ + msg.time]
    ELSE c

\* Accumulate absolute time from delta time.
Advance(c, msg) ==
    [c EXCEPT !.absolute_time_seconds = @ + Tick2Second(msg.time, c.tempo_usec),
              !.absolute_ticks = @ + msg.time]

\* set_tempo with the metadata written on the first occurrence only.
SetTempoFirstWins(c, msg) ==
    [c EXCEPT !.tempo_usec = msg.tempo,
              !.output.meta.tempo = IF @ = None THEN Some(Tempo2Bpm(msg.tempo)) ELSE @]

SetTempo(c, msg) ==
    [c EXCEPT !.tempo_usec = msg.tempo,
              !.output.meta.tempo = Some(Tempo2Bpm(msg.tempo))]

TimeSignature(c, msg) ==
    [c EXCEPT !.output.meta.timeSignature = Some(<<msg.numerator, msg.denominator>>)]

\* note_on with velocity > 0 keeping one pending onset per pitch: a new onset
\* replaces the one waiting.
NoteOnReplaces(c, msg) ==
    LET midi_pitch == msg.note
        onset == [absolute_time |-> c.absolute_time_seconds,
                  absolute_ticks |-> c.absolute_ticks,
                  velocity |-> <<msg.velocity, 127>>,
                  channel |-> msg.channel,
                  midi_pitch |-> midi_pitch]
    IN  [c EXCEPT !.channel_percussion = IF msg.channel = 9 THEN @ \cup {9} ELSE @,
                  !.note_queue = (midi_pitch :> <<onset>>) @@ @]

\* note_on with velocity > 0: store the onset.
NoteOn(c, msg) ==
    LET midi_pitch == msg.note
        velocity == <<msg.velocity, 127>>
        percussion == IF msg.channel = 9
                      THEN c.channel_percussion \cup {msg.channel}
                      ELSE c.channel_percussion
        queue == IF midi_pitch \notin DOMAIN c.note_queue
                 THEN (midi_pitch :> <<>>) @@ c.note_queue
                 ELSE c.note_queue
        onset == [absolute_time |-> c.absolute_time_seconds,
                  absolute_ticks |-> c.absolute_ticks,
                  velocity |-> velocity,
                  channel |-> msg.channel,
                  midi_pitch |-> midi_pitch]
    IN  [c EXCEPT !.channel_percussion = percussion,
                  !.note_queue = [queue EXCEPT ![midi_pitch] = Append(@, onset)]]

PopLast(list) == [item |-> list[Len(list)], rest |-> SubSeq(list, 1, Len(list) - 1)]

\* list.pop(0): the first element and the list without it.
Pop0(list) == [item |-> Head(list), rest |-> Tail(list)]

\* The zero-velocity branch without the lookup in gp5_note_mapping.
NoteOnZeroUnenriched(c, msg) ==
    LET midi_pitch == msg.note
    IN  IF midi_pitch \in DOMAIN c.note_queue /\ Len(c.note_queue[midi_pitch]) > 0
        THEN LET popped == Pop0(c.note_queue[midi_pitch])
                 note_on_data == popped.item
                 c1 == [c EXCEPT !.note_queue[midi_pitch] = popped.rest]
             IN  IF note_on_data.channel # 9
                 THEN LET note_data ==
                              [duration |-> c.absolute_time_seconds - note_on_data.absolute_time,
                               durationTicks |-> c.absolute_ticks - note_on_data.absolute_ticks,
                               midi |-> midi_pitch,
                               name |-> midi_to_note_name(midi_pitch),
                               ticks |-> note_on_data.absolute_ticks,
                               time |-> note_on_data.absolute_time,
                               velocity |-> note_on_data.velocity,
                               string |-> None,
                               fret |-> None]
                      IN  [c1 EXCEPT !.note_data_list = Append(@, note_data)]
                 ELSE c1
        ELSE Say(c, [warning |-> "note_off without matching note_on",
                     midi_pitch |-> midi_pitch])

\* note_on with velocity 0 is treated as note_off.
NoteOnZero(c, msg) ==
    LET midi_pitch == msg.note
    IN  IF midi_pitch \in DOMAIN c.note_queue /\ Len(c.note_queue[midi_pitch]) > 0
        THEN LET popped == Pop0(c.note_queue[midi_pitch])
                 note_on_data == popped.item
                 c1 == [c EXCEPT !.note_queue[midi_pitch] = popped.rest]
                 duration == c.absolute_time_seconds - note_on_data.absolute_time
                 duration_ticks == c.absolute_ticks - note_on_data.absolute_ticks
             IN  IF note_on_data.channel # 9
                 THEN LET note_data ==
                              [duration |-> duration,
                               durationTicks |-> duration_ticks,
                               midi |-> midi_pitch,
                               name |-> midi_to_note_name(midi_pitch),
                               ticks |-> note_on_data.absolute_ticks,
                               time |-> note_on_data.absolute_time,
                               velocity |-> note_on_data.velocity,
                               string |-> None,
                               fret |-> None]
                          enriched ==
                              IF midi_pitch \in DOMAIN c.gp5_note_mapping
                              THEN [note_data EXCEPT
                                      !.string = Some(c.gp5_note_mapping[midi_pitch].string),
                                      !.fret = Some(c.gp5_note_mapping[midi_pitch].fret)]
                              ELSE note_data
                      IN  [c1 EXCEPT !.note_data_list = Append(@, enriched)]
                 ELSE c1
        ELSE Say(c, [warning |-> "note_off without matching note_on",
                     midi_pitch |-> midi_pitch])

\* The note_off branch with the percussion test made on the closing message's
\* channel instead of the popped onset's.
NoteOffByMsgChannel(c, msg) ==
    LET midi_pitch == msg.note
    IN  IF midi_pitch \in DOMAIN c.note_queue /\ Len(c.note_queue[midi_pitch]) > 0
        THEN LET popped == Pop0(c.note_queue[midi_pitch])
                 note_on_data == popped.item
                 c1 == [c EXCEPT !.note_queue[midi_pitch] = popped.rest]
             IN  IF msg.channel # 9
                 THEN LET note_data ==
                              [duration |-> c.absolute_time_seconds - note_on_data.absolute_time,
                               durationTicks |-> c.absolute_ticks - note_on_data.absolute_ticks,
                               midi |-> midi_pitch,
                               name |-> midi_to_note_name(midi_pitch),
                               ticks |-> note_on_data.absolute_ticks,
                               time |-> note_on_data.absolute_time,
                               velocity |-> note_on_data.velocity,
                               string |-> IF midi_pitch \in DOMAIN c.gp5_note_mapping
                                          THEN Some(c.gp5_note_mapping[midi_pitch].string)
                                          ELSE None,
                               fret |-> IF midi_pitch \in DOMAIN c.gp5_note_mapping
                                        THEN Some(c.gp5_note_mapping[midi_pitch].fret)
                                        ELSE None]
                      IN  [c1 EXCEPT !.note_data_list = Append(@, note_data)]
                 ELSE c1
        ELSE Say(c, [warning |-> "note_off without matching note_on",
                     midi_pitch |-> midi_pitch])

\* The note_off branch with an unmatched note_off dropped without a word.
NoteOffSilent(c, msg) ==
    LET midi_pitch == msg.note
    IN  IF midi_pitch \in DOMAIN c.note_queue /\ Len(c.note_queue[midi_pitch]) > 0
        THEN LET popped == Pop0(c.note_queue[midi_pitch])
                 note_on_data == popped.item
                 c1 == [c EXCEPT !.note_queue[midi_pitch] = popped.rest]
             IN  IF note_on_data.channel # 9
                 THEN LET note_data ==
                              [duration |-> c.absolute_time_seconds - note_on_data.absolute_time,
                               durationTicks |-> c.absolute_ticks - note_on_data.absolute_ticks,
                               midi |-> midi_pitch,
                               name |-> midi_to_note_name(midi_pitch),
                               ticks |-> note_on_data.absolute_ticks,
                               time |-> note_on_data.absolute_time,
                               velocity |-> note_on_data.velocity,
                               string |-> IF midi_pitch \in DOMAIN c.gp5_note_mapping
                                          THEN Some(c.gp5_note_mapping[midi_pitch].string)
                                          ELSE None,
                               fret |-> IF midi_pitch \in DOMAIN c.gp5_note_mapping
                                        THEN Some(c.gp5_note_mapping[midi_pitch].fret)
                                        ELSE None]
                      IN  [c1 EXCEPT !.note_data_list = Append(@, note_data)]
                 ELSE c1
        ELSE c

\* The note_off branch with the queues searched for the oldest onset sent on
\* the closing message's channel.
NoteOffSameChannel(c, msg) ==
    LET midi_pitch == msg.note
        queue == IF midi_pitch \in DOMAIN c.note_queue THEN c.note_queue[midi_pitch] ELSE <<>>
        same == {i \in 1..Len(queue) : queue[i].channel = msg.channel}
    IN  IF same # {}
        THEN LET at == CHOOSE i \in same : \A j \in same : i <= j
                 note_on_data == queue[at]
                 c1 == [c EXCEPT !.note_queue[midi_pitch] =
                           SubSeq(queue, 1, at - 1) \o SubSeq(queue, at + 1, Len(queue))]
             IN  IF note_on_data.channel # 9
                 THEN LET note_data ==
                              [duration |-> c.absolute_time_seconds - note_on_data.absolute_time,
                               durationTicks |-> c.absolute_ticks - note_on_data.absolute_ticks,
                               midi |-> midi_pitch,
                               name |-> midi_to_note_name(midi_pitch),
                               ticks |-> note_on_data.absolute_ticks,
                               time |-> note_on_data.absolute_time,
                               velocity |-> note_on_data.velocity,
                               string |-> IF midi_pitch \in DOMAIN c.gp5_note_mapping
                                          THEN Some(c.gp5_note_mapping[midi_pitch].string)
                                          ELSE None,
                               fret |-> IF midi_pitch \in DOMAIN c.gp5_note_mapping
                                        THEN Some(c.gp5_note_mapping[midi_pitch].fret)
                                        ELSE None]
                      IN  [c1 EXCEPT !.note_data_list = Append(@, note_data)]
                 ELSE c1
        ELSE Say(c, [warning |-> "note_off without matching note_on",
                     midi_pitch |-> midi_pitch])

\* The note_off branch.
NoteOff(c, msg) ==
    LET midi_pitch == msg.note
    IN  IF midi_pitch \in DOMAIN c.note_queue /\ Len(c.note_queue[midi_pitch]) > 0
        THEN LET popped == Pop0(c.note_queue[midi_pitch])
                 note_on_data == popped.item
                 c1 == [c EXCEPT !.note_queue[midi_pitch] = popped.rest]
                 duration == c.absolute_time_seconds - note_on_data.absolute_time
                 duration_ticks == c.absolute_ticks - note_on_data.absolute_ticks
             IN  IF note_on_data.channel # 9
                 THEN LET note_data ==
                              [duration |-> duration,
                               durationTicks |-> duration_ticks,
                               midi |-> midi_pitch,
                               name |-> midi_to_note_name(midi_pitch),
                               ticks |-> note_on_data.absolute_ticks,
                               time |-> note_on_data.absolute_time,
                               velocity |-> note_on_data.velocity,
                               string |-> None,
                               fret |-> None]
                          enriched ==
                              IF midi_pitch \in DOMAIN c.gp5_note_mapping
                              THEN [note_data EXCEPT
                                      !.string = Some(c.gp5_note_mapping[midi_pitch].string),
                                      !.fret = Some(c.gp5_note_mapping[midi_pitch].fret)]
                              ELSE note_data
                      IN  [c1 EXCEPT !.note_data_list = Append(@, enriched)]
                 ELSE c1
        ELSE Say(c, [warning |-> "note_off without matching note_on",
                     midi_pitch |-> midi_pitch])

\* The loop body without the velocity test: every note_on is an onset.
HandleMsgNoAlias(c, msg) ==
    LET a == Advance(c, msg)
    IN  IF msg.type = "set_tempo" THEN SetTempo(a, msg)
        ELSE IF msg.type = "time_signature" THEN TimeSignature(a, msg)
        ELSE IF msg.type = "note_on" THEN NoteOn(a, msg)
        ELSE IF msg.type = "note_off" THEN NoteOff(a, msg)
        ELSE a

\* The loop body with a set_tempo taking effect before its own delta time is
\* converted.
HandleMsgTempoFirst(c, msg) ==
    LET a == IF msg.type = "set_tempo"
             THEN Advance([c EXCEPT !.tempo_usec = msg.tempo], msg)
             ELSE Advance(c, msg)
    IN  IF msg.type = "set_tempo" THEN SetTempo(a, msg)
        ELSE IF msg.type = "time_signature" THEN TimeSignature(a, msg)
        ELSE IF msg.type = "note_on"
             THEN IF msg.velocity > 0 THEN NoteOn(a, msg) ELSE NoteOnZero(a, msg)
        ELSE IF msg.type = "note_off" THEN NoteOff(a, msg)
        ELSE a

\* The body of "for msg in track".
HandleMsg(c, msg) ==
    LET a == Advance(c, msg)
    IN  IF msg.type = "set_tempo" THEN SetTempo(a, msg)
        ELSE IF msg.type = "time_signature" THEN TimeSignature(a, msg)
        ELSE IF msg.type = "note_on"
             THEN IF msg.velocity > 0 THEN NoteOn(a, msg) ELSE NoteOnZero(a, msg)
        ELSE IF msg.type = "note_off" THEN NoteOff(a, msg)
        ELSE a

NoteOnMsgs ==
    [type : {"note_on"}, time : Deltas, note : Pitches, velocity : Velocities,
     channel : Channels]
NoteOffMsgs ==
    [type : {"note_off"}, time : Deltas, note : Pitches, velocity : ReleaseVelocities,
     channel : Channels]
SetTempoMsgs == [type : {"set_tempo"}, time : Deltas, tempo : Tempos]
TimeSignatureMsgs ==
    {[type |-> "time_signature", time |-> d, numerator |-> ts[1], denominator |-> ts[2]] :
        d \in Deltas, ts \in TimeSignatures}
OtherMsgs == [type : {"control_change"}, time : Deltas]
Messages == NoteOnMsgs \cup NoteOffMsgs \cup SetTempoMsgs \cup TimeSignatureMsgs \cup OtherMsgs

\* An insertion that puts a note before the notes of equal time: not stable.
SortedInsertUnstable(sorted, note) ==
    LET k == Cardinality({i \in 1..Len(sorted) : sorted[i].time < note.time})
    IN  SubSeq(sorted, 1, k) \o <<note>> \o SubSeq(sorted, k + 1, Len(sorted))

\* list.sort(key=lambda note: note["time"]): stable, ascending.
SortedInsert(sorted, note) ==
    LET k == Cardinality({i \in 1..Len(sorted) : sorted[i].time <= note.time})
    IN  SubSeq(sorted, 1, k) \o <<note>> \o SubSeq(sorted, k + 1, Len(sorted))

RECURSIVE SortByTime(_)
SortByTime(list) ==
    IF list = <<>> THEN <<>>
    ELSE SortedInsert(SortByTime(SubSeq(list, 1, Len(list) - 1)), list[Len(list)])

\* Sort notes by start time and append the track to the output.
EndTrack(c, name) ==
    LET sorted == SortByTime(c.note_data_list)
        c1 == [c EXCEPT !.note_data_list = sorted]
    IN  [c1 EXCEPT !.output.tracks =
            Append(@, [name |-> IF name # "" THEN name ELSE "Unnamed Track",
                       notes |-> sorted])]

\* ------------------------------------------------------------------ the run
Init ==
    /\ \/ argc = 4 /\ listing = EmptyMap /\ limit = MaxInput
       \/ argc = 1 /\ listing \in [Entries -> EntryKinds] /\ limit = MaxBatchInput
    /\ todo = {}
    /\ pc = "main"
    /\ out = None
    /\ files = EmptyMap
    /\ conv = ProcessStart
    /\ ref = ProcessStart
    /\ nread = 0
    /\ seen = NothingSeen

\* if len(sys.argv) != 4: for folder in DEFAULT_INPUT_DIR.iterdir()
MainBatch ==
    /\ pc = "main" /\ argc # 4
    /\ pc' = "batch"
    /\ todo' = DOMAIN listing
    /\ UNCHANGED <<seen, argc, listing, out, files, conv, ref, nread, limit>>

\* else: parse_gp5_and_midi(Path(sys.argv[1]), Path(sys.argv[2]), Path(sys.argv[3]))
MainSingle ==
    /\ pc = "main" /\ argc = 4
    /\ pc' = "parse_gp5"
    /\ out' = Some("argv[3]")
    /\ UNCHANGED <<seen, argc, listing, todo, files, conv, ref, nread, limit>>

\* iterdir() yields a plain file: not folder.is_dir().
SkipFile ==
    /\ pc = "batch"
    /\ \E folder \in todo :
          /\ ~listing[folder].is_dir
          /\ todo' = todo \ {folder}
    /\ UNCHANGED <<seen, argc, listing, pc, out, files, conv, ref, nread, limit>>

\* The else branch leaving the loop (break) after its warning.
SkipFolderBreaks ==
    /\ pc = "batch"
    /\ \E folder \in todo :
          /\ listing[folder].is_dir
          /\ ~(listing[folder].gp5_file # None /\ listing[folder].midi_file)
          /\ todo' = todo \ {folder}
          /\ conv' = Say(conv, [warning |-> "Skipping", folder |-> folder])
    /\ pc' = "done"
    /\ UNCHANGED <<seen, argc, listing, out, files, ref, nread, limit>>

\* iterdir() yields a folder without both files: the warning of the else branch.
SkipFolder ==
    /\ pc = "batch"
    /\ \E folder \in todo :
          /\ listing[folder].is_dir
          /\ ~(listing[folder].gp5_file # None /\ listing[folder].midi_file)
          /\ todo' = todo \ {folder}
          /\ conv' = Say(conv, [warning |-> "Skipping", folder |-> folder])
    /\ UNCHANGED <<seen, argc, listing, pc, out, files, ref, nread, limit>>

\* iterdir() yields a folder with both files: parse_gp5_and_midi is called.
ProcessFolder ==
    /\ pc = "batch"
    /\ \E folder \in todo :
          /\ listing[folder].is_dir
          /\ listing[folder].gp5_file # None /\ listing[folder].midi_file
          /\ todo' = todo \ {folder}
          /\ out' = Some(OutName(folder))
          /\ conv' = Say(conv, [processing |-> folder])
    /\ pc' = "parse_gp5"
    /\ UNCHANGED <<seen, argc, listing, files, ref, nread, limit>>

\* The for loop over the input directory is exhausted.
BatchDone ==
    /\ pc = "batch" /\ todo = {}
    /\ pc' = "done"
    /\ UNCHANGED <<seen, argc, listing, todo, out, files, conv, ref, nread, limit>>

\* guitarpro.parse(input_gp5) returns the song.
ParseGp5 ==
    /\ pc = "parse_gp5"
    /\ pc' = "gp5"
    /\ conv' = BeginGp5(conv)
    /\ ref' = BeginGp5(ProcessStart)
    /\ UNCHANGED <<seen, argc, listing, todo, out, files, nread, limit>>

\* guitarpro.parse(input_gp5) raises (missing or malformed file): nothing catches it.
ParseGp5Raises ==
    /\ pc = "parse_gp5"
    /\ pc' = "raised"
    /\ UNCHANGED <<seen, argc, listing, todo, out, files, conv, ref, nread, limit>>

\* The traversal reaches the next tablature note.
ReadGp5Note ==
    /\ pc = "gp5" /\ MoreInput
    /\ \E note \in Gp5Notes :
          /\ note.isPercussionTrack \/ ~TabNoteRaises(note)
          /\ conv' = Gp5Note(conv, note)
          /\ ref' = Gp5Note(ref, note)
    /\ nread' = nread + 1
    /\ UNCHANGED <<seen, argc, listing, todo, pc, out, files, limit>>

\* The next tablature note has a string for which STANDARD_TUNING[6 - string]
\* raises IndexError.
ReadGp5NoteRaises ==
    /\ pc = "gp5" /\ MoreInput
    /\ \E note \in Gp5Notes : ~note.isPercussionTrack /\ TabNoteRaises(note)
    /\ pc' = "raised"
    /\ nread' = nread + 1
    /\ UNCHANGED <<seen, argc, listing, todo, out, files, conv, ref, limit>>

\* The tablature is exhausted; MidiFile(input_midi) returns and output is built.
ParseMidi ==
    /\ pc = "gp5"
    /\ pc' = "midi"
    /\ \E title \in Stems :
          /\ conv' = BeginMidi(conv, title)
          /\ ref' = BeginMidi(ref, title)
    /\ UNCHANGED <<seen, argc, listing, todo, out, files, nread, limit>>

\* MidiFile(input_midi) raises inside a try whose handler prints the error and
\* lets a batch go on with the next folder.
ParseMidiRaisesCaught ==
    /\ pc = "gp5"
    /\ pc' = IF argc = 4 THEN "raised" ELSE "batch"
    /\ conv' = Say(conv, [error |-> "MidiFile"])
    /\ UNCHANGED <<seen, argc, listing, todo, out, files, ref, nread, limit>>

\* MidiFile(input_midi) raises.
ParseMidiRaises ==
    /\ pc = "gp5"
    /\ pc' = "raised"
    /\ UNCHANGED <<seen, argc, listing, todo, out, files, conv, ref, nread, limit>>

\* for track in midi_song.tracks: the next track.
NextTrack ==
    /\ pc = "midi" /\ MoreInput
    /\ pc' = "track"
    /\ conv' = BeginTrack(conv)
    /\ ref' = BeginTrack(ref)
    /\ nread' = nread + 1
    /\ UNCHANGED <<seen, argc, listing, todo, out, files, limit>>

\* for msg in track: the next message.
ReadMsg ==
    /\ pc = "track" /\ MoreInput
    /\ \E msg \in Messages :
          /\ conv' = HandleMsg(conv, msg)
          /\ ref' = HandleMsg(ref, msg)
    /\ nread' = nread + 1
    /\ UNCHANGED <<seen, argc, listing, todo, pc, out, files, limit>>

\* for msg in track: the next message of a track of note messages.
ReadNoteMsg ==
    /\ pc = "track" /\ MoreInput
    /\ \E msg \in NoteOnMsgs \cup NoteOffMsgs :
          /\ conv' = HandleMsg(conv, msg)
          /\ ref' = HandleMsg(ref, msg)
    /\ nread' = nread + 1
    /\ UNCHANGED <<seen, argc, listing, todo, pc, out, files, limit>>

\* The track is exhausted: sort and append.
FinishTrack ==
    /\ pc = "track"
    /\ pc' = "midi"
    /\ \E name \in TrackNames :
          /\ conv' = EndTrack(conv, name)
          /\ ref' = EndTrack(ref, name)
    /\ UNCHANGED <<seen, argc, listing, todo, out, files, nread, limit>>

\* json.dump(output, f)
WriteFile(fs, name, document) == (name :> document) @@ fs

\* The tracks are exhausted: the document is written and the call returns.
WriteOutput ==
    /\ pc = "midi"
    /\ files' = WriteFile(files, out[1], conv.output)
    /\ pc' = IF argc = 4 THEN "done" ELSE "batch"
    /\ UNCHANGED <<seen, argc, listing, todo, out, conv, ref, nread, limit>>

Next ==
    \/ MainBatch \/ MainSingle
    \/ SkipFile \/ SkipFolder \/ ProcessFolder \/ BatchDone
    \/ ParseGp5 \/ ParseGp5Raises
    \/ ReadGp5Note \/ ReadGp5NoteRaises
    \/ ParseMidi \/ ParseMidiRaises
    \/ NextTrack \/ ReadMsg \/ FinishTrack \/ WriteOutput

Spec == Init /\ [][Next]_vars

\* One song from argv whose MIDI file holds note messages only.
InitNotes ==
    /\ argc = 4 /\ listing = EmptyMap /\ limit = MaxNotesInput
    /\ todo = {}
    /\ pc = "main"
    /\ out = None
    /\ files = EmptyMap
    /\ conv = ProcessStart
    /\ ref = ProcessStart
    /\ nread = 0
    /\ seen = NothingSeen

NextNotes ==
    \/ MainSingle \/ ParseGp5 \/ ParseMidi
    \/ NextTrack \/ ReadNoteMsg \/ FinishTrack \/ WriteOutput

SpecNotes == InitNotes /\ [][NextNotes]_vars

\* for track in midi_song.tracks: the next track, recorded.
SeeTrack ==
    /\ pc = "midi" /\ MoreInput
    /\ pc' = "track"
    /\ conv' = BeginTrack(conv)
    /\ ref' = BeginTrack(ref)
    /\ nread' = nread + 1
    /\ seen' = [seen EXCEPT !.tracks = Append(@, <<>>), !.stdout0 = Len(conv.stdout)]
    /\ UNCHANGED <<argc, listing, todo, out, files, limit>>

\* for msg in track: the next message, drawn from msgs and recorded.
SeeMsgFrom(msgs) ==
    /\ pc = "track" /\ MoreInput
    /\ \E msg \in msgs :
          /\ conv' = HandleMsg(conv, msg)
          /\ ref' = HandleMsg(ref, msg)
          /\ seen' = [seen EXCEPT !.tracks[Len(seen.tracks)] = Append(@, msg)]
    /\ nread' = nread + 1
    /\ UNCHANGED <<argc, listing, todo, pc, out, files, limit>>

\* A track of note messages.
SeeNoteMsg == SeeMsgFrom(NoteOnMsgs \cup NoteOffMsgs)

\* A track of one voice (one pitch, one channel) among meta messages and
\* messages of other types.
VoiceMsgs ==
    {m \in Messages : m.type \in {"note_on", "note_off"} => (m.note = 60 /\ m.channel = 0)}

SeeVoiceMsg == SeeMsgFrom(VoiceMsgs)

\* One song from argv, with the tracks and messages of its MIDI file recorded
\* as they are read.
InitHist ==
    /\ argc = 4 /\ listing = EmptyMap /\ limit = MaxHistInput
    /\ todo = {}
    /\ pc = "main"
    /\ out = None
    /\ files = EmptyMap
    /\ conv = ProcessStart
    /\ ref = ProcessStart
    /\ nread = 0
    /\ seen = NothingSeen

\* ... its tracks holding one voice, tempo changes, time signatures and
\* messages of other types;
NextHist ==
    \/ MainSingle \/ ParseGp5 \/ ParseMidi
    \/ SeeTrack \/ SeeVoiceMsg \/ FinishTrack \/ WriteOutput

SpecHist == InitHist /\ [][NextHist]_vars

\* ... its tracks holding note messages only.
NextHistNotes ==
    \/ MainSingle \/ ParseGp5 \/ ParseMidi
    \/ SeeTrack \/ SeeNoteMsg \/ FinishTrack \/ WriteOutput

SpecHistNotes == InitHist /\ [][NextHistNotes]_vars

\* The traversal reaches the next tablature note, recorded.
SeeGp5Note ==
    /\ pc = "gp5" /\ MoreInput
    /\ \E note \in TabNotes :
          /\ note.isPercussionTrack \/ ~TabNoteRaises(note)
          /\ conv' = Gp5Note(conv, note)
          /\ ref' = Gp5Note(ref, note)
          /\ seen' = [seen EXCEPT !.notes = Append(@, note)]
    /\ nread' = nread + 1
    /\ UNCHANGED <<argc, listing, todo, pc, out, files, limit>>

\* The next tablature note, recorded, raises IndexError.
SeeGp5NoteRaises ==
    /\ pc = "gp5" /\ MoreInput
    /\ \E note \in TabNotes :
          /\ ~note.isPercussionTrack /\ TabNoteRaises(note)
          /\ seen' = [seen EXCEPT !.notes = Append(@, note)]
    /\ pc' = "raised"
    /\ nread' = nread + 1
    /\ UNCHANGED <<argc, listing, todo, out, files, conv, ref, limit>>

\* One song from argv: its tablature notes recorded as they are read, its MIDI
\* file without a track.
InitTab ==
    /\ argc = 4 /\ listing = EmptyMap /\ limit = MaxTabInput
    /\ todo = {}
    /\ pc = "main"
    /\ out = None
    /\ files = EmptyMap
    /\ conv = ProcessStart
    /\ ref = ProcessStart
    /\ nread = 0
    /\ seen = NothingSeen

NextTab ==
    \/ MainSingle \/ ParseGp5 \/ SeeGp5Note \/ SeeGp5NoteRaises
    \/ ParseMidi \/ WriteOutput

SpecTab == InitTab /\ [][NextTab]_vars

\* A batch run over an input directory of three entries.
InitWide ==
    /\ argc = 1 /\ listing \in [WideEntries -> EntryKinds] /\ limit = MaxWideInput
    /\ todo = {}
    /\ pc = "main"
    /\ out = None
    /\ files = EmptyMap
    /\ conv = ProcessStart
    /\ ref = ProcessStart
    /\ nread = 0
    /\ seen = NothingSeen

NextWide ==
    \/ MainBatch
    \/ SkipFile \/ SkipFolder \/ ProcessFolder \/ BatchDone
    \/ ParseGp5 \/ ParseGp5Raises
    \/ ReadGp5Note \/ ReadGp5NoteRaises
    \/ ParseMidi \/ ParseMidiRaises
    \/ NextTrack \/ ReadMsg \/ FinishTrack \/ WriteOutput

SpecWide == InitWide /\ [][NextWide]_vars

TypeOK ==
    /\ pc \in {"main", "batch", "parse_gp5", "gp5", "midi", "track", "done", "raised"}
    /\ nread \in 0..limit
    /\ todo \subseteq DOMAIN listing

\* ------------------------------------------------------------------ claims
\* The onset queue of a pitch; a pitch without a key has no queued onset.
Queue(c, p) == IF p \in DOMAIN c.note_queue THEN c.note_queue[p] ELSE <<>>

\* The note the closing event at the clock of c2 emits for the popped onset.
ClosesOnset(note, onset, c2) ==
    /\ note.midi = onset.midi_pitch
    /\ note.ticks = onset.absolute_ticks
    /\ note.time = onset.absolute_time
    /\ note.velocity = onset.velocity
    /\ note.durationTicks = c2.absolute_ticks - onset.absolute_ticks
    /\ note.duration = c2.absolute_time_seconds - onset.absolute_time

\* C1: FIFO matching. While a track is read, the queue of a pitch changes only
\* by an onset joining at its tail or by its head (the earliest onset not yet
\* matched) leaving; the note list grows only by the one note that pairs a head
\* that left with the closing event that removed it. So the k-th closing event
\* that finds an onset is paired with the k-th onset of its pitch.
C1_FifoMatching ==
    [][(pc = "track" /\ pc' = "track") =>
        /\ \A p \in Pitches :
              LET q == Queue(conv, p)
                  q2 == Queue(conv', p)
              IN  \/ q2 = q
                  \/ Len(q2) = Len(q) + 1 /\ SubSeq(q2, 1, Len(q)) = q
                       /\ q2[Len(q2)].absolute_ticks = conv'.absolute_ticks
                       /\ conv'.note_data_list = conv.note_data_list
                  \/ /\ q # <<>> /\ q2 = Tail(q)
                     /\ IF Head(q).channel # 9
                        THEN /\ Len(conv'.note_data_list) = Len(conv.note_data_list) + 1
                             /\ ClosesOnset(conv'.note_data_list[Len(conv'.note_data_list)],
                                            Head(q), conv')
                        ELSE conv'.note_data_list = conv.note_data_list
        /\ \/ conv'.note_data_list = conv.note_data_list
           \/ /\ Len(conv'.note_data_list) = Len(conv.note_data_list) + 1
              /\ SubSeq(conv'.note_data_list, 1, Len(conv.note_data_list))
                    = conv.note_data_list
              /\ \E p \in Pitches : Queue(conv, p) # <<>> /\ Queue(conv', p) = Tail(Queue(conv, p))
       ]_vars

\* C1 witness: two overlapping notes of one pitch, the first onset closed by
\* the first closing event and the second by the second.
C1_Witness ==
    /\ pc = "track"
    /\ Len(conv.note_data_list) = 2
    /\ LET n1 == conv.note_data_list[1]
           n2 == conv.note_data_list[2]
       IN  /\ n1.midi = n2.midi
           /\ n1.ticks < n2.ticks
           /\ n2.ticks < n1.ticks + n1.durationTicks
           /\ n1.ticks + n1.durationTicks < n2.ticks + n2.durationTicks

\* C2: percussion exclusion. Whenever a step adds a note to the track's note
\* list, the note comes from the onset at the head of its pitch's queue and that
\* onset was not sent on channel 9; an onset of channel 9 that leaves its queue
\* adds nothing. No emitted note originates from a note_on of channel 9.
C2_PercussionExcluded ==
    [][(pc = "track" /\ pc' = "track") =>
        /\ conv'.note_data_list # conv.note_data_list =>
              \E p \in Pitches :
                  /\ Queue(conv, p) # <<>>
                  /\ Head(Queue(conv, p)).channel # 9
                  /\ Queue(conv', p) = Tail(Queue(conv, p))
                  /\ conv'.note_data_list =
                        Append(conv.note_data_list,
                               conv'.note_data_list[Len(conv'.note_data_list)])
                  /\ ClosesOnset(conv'.note_data_list[Len(conv'.note_data_list)],
                                 Head(Queue(conv, p)), conv')
        /\ \A p \in Pitches :
              (/\ Queue(conv, p) # <<>>
               /\ Head(Queue(conv, p)).channel = 9
               /\ Queue(conv', p) = Tail(Queue(conv, p)))
                  => conv'.note_data_list = conv.note_data_list
       ]_vars

\* C2 witness: a track that queued an onset on channel 9 and closed it: the
\* queue of the pitch is empty again and no note was emitted.
C2_Witness ==
    /\ pc = "track"
    /\ conv.channel_percussion = {9}
    /\ \E p \in DOMAIN conv.note_queue : conv.note_queue[p] = <<>>
    /\ \A p \in DOMAIN conv.note_queue : conv.note_queue[p] = <<>>
    /\ conv.note_data_list = <<>>
    /\ conv.stdout = <<>>

\* A closing event for pitch p: explicit note_off, or note_on with velocity 0.
ClosingMsgs(p, d) ==
    {m \in NoteOnMsgs \cup NoteOffMsgs :
        m.note = p /\ m.time = d /\ (m.type = "note_off" \/ m.velocity = 0)}

UnmatchedWarning(p) == [warning |-> "note_off without matching note_on", midi_pitch |-> p]

\* C3: malformed MIDI. In every state a track can be in, a closing event for a
\* pitch whose queue is absent or empty prints exactly one warning, emits no
\* note and leaves the queues and the note list as they were: the clock alone
\* advances by the message's delta time, and the track goes on from there.
C3_UnmatchedNoteOff ==
    pc = "track" =>
        \A p \in Pitches, d \in Deltas :
            Queue(conv, p) = <<>> =>
                \A m \in ClosingMsgs(p, d) :
                    HandleMsg(conv, m) =
                        [conv EXCEPT
                            !.stdout = Append(@, UnmatchedWarning(p)),
                            !.absolute_ticks = @ + d,
                            !.absolute_time_seconds = @ + Tick2Second(d, conv.tempo_usec)]

\* C3 witness: a track that printed the warning for an unmatched closing event
\* while an onset of another pitch was queued, and then closed that onset into a
\* note: the rest of the track was processed.
C3_Witness ==
    /\ pc = "track"
    /\ Len(conv.stdout) = 1
    /\ \E p \in Pitches : conv.stdout[1] = UnmatchedWarning(p)
    /\ Len(conv.note_data_list) = 1
    /\ conv.note_data_list[1].ticks = 0
    /\ conv.note_data_list[1].durationTicks = 2

\* The tablature notes the traversal can meet in a track that is not percussion
\* without an IndexError.
PlayedNotes == {n \in Gp5Notes : ~n.isPercussionTrack /\ ~TabNoteRaises(n)}

PositionOf(note) == [string |-> note.string, fret |-> note.value]

\* C4: PitchMap first-write-wins. In every state of the tablature traversal,
\* observing a note keeps every entry of the map as it is; a pitch without an
\* entry gets the note's string and fret and nothing is printed; a pitch with
\* the same string and fret prints nothing; a pitch mapped to another string or
\* fret keeps its entry and prints exactly one warning naming both positions.
C4_FirstWriteWins ==
    pc = "gp5" =>
        \A note \in PlayedNotes :
            LET p == TabPitch(note)
                old == conv.gp5_note_mapping
                c2 == Gp5Note(conv, note)
                new == c2.gp5_note_mapping
            IN  /\ DOMAIN new = DOMAIN old \cup {p}
                /\ \A q \in DOMAIN old : new[q] = old[q]
                /\ p \notin DOMAIN old => new[p] = PositionOf(note) /\ c2.stdout = conv.stdout
                /\ (p \in DOMAIN old /\ old[p] = PositionOf(note)) => c2.stdout = conv.stdout
                /\ (p \in DOMAIN old /\ old[p] # PositionOf(note)) =>
                       c2.stdout = Append(conv.stdout,
                                          [warning |-> "multiple positions",
                                           midi_pitch |-> p,
                                           existing |-> old[p],
                                           new |-> PositionOf(note)])
                /\ c2 = [conv EXCEPT !.gp5_note_mapping = new, !.stdout = c2.stdout]

\* C4 witness: pitch 60 was observed at string 3 fret 5 and then at string 2
\* fret 1: the map holds (3, 5) and one warning was printed.
C4_Witness ==
    /\ pc = "gp5"
    /\ 60 \in DOMAIN conv.gp5_note_mapping
    /\ conv.gp5_note_mapping[60] = [string |-> 3, fret |-> 5]
    /\ conv.stdout = <<[warning |-> "multiple positions",
                        midi_pitch |-> 60,
                        existing |-> [string |-> 3, fret |-> 5],
                        new |-> [string |-> 2, fret |-> 1]]>>

\* Every note the conversion in progress has emitted so far.
NotesOf(c) ==
    {c.note_data_list[i] : i \in 1..Len(c.note_data_list)}
        \cup UNION {{c.output.tracks[t].notes[i] : i \in 1..Len(c.output.tracks[t].notes)} :
                      t \in 1..Len(c.output.tracks)}

\* Every note of a written document.
NotesIn(document) ==
    UNION {{document.tracks[t].notes[i] : i \in 1..Len(document.tracks[t].notes)} :
             t \in 1..Len(document.tracks)}

\* C5: every emitted note has a non-negative duration, in ticks and in seconds,
\* in the track being read, in the tracks already finished and in every
\* document written, tempo changes between onset and closing event included.
C5_NonNegativeDuration ==
    /\ \A n \in NotesOf(conv) : n.durationTicks >= 0 /\ n.duration >= 0
    /\ \A f \in DOMAIN files :
          \A n \in NotesIn(files[f]) : n.durationTicks >= 0 /\ n.duration >= 0

\* C5 witness: a note whose onset and closing event lie on either side of a
\* set_tempo, so that its seconds mix two tempos.
C5_Witness ==
    /\ pc = "track"
    /\ conv.tempo_usec # DEFAULT_TEMPO
    /\ \E i \in 1..Len(conv.note_data_list) :
          LET n == conv.note_data_list[i]
          IN  /\ n.durationTicks = 2
              /\ n.duration = Tick2Second(1, DEFAULT_TEMPO) + Tick2Second(1, conv.tempo_usec)

\* sorted is emitted rearranged by a permutation that puts onset times in
\* ascending order and keeps notes of equal onset time in their emitted order.
IsStableSortOf(sorted, emitted) ==
    /\ Len(sorted) = Len(emitted)
    /\ \E f \in [1..Len(emitted) -> 1..Len(emitted)] :
          /\ \A i, j \in 1..Len(emitted) : i # j => f[i] # f[j]
          /\ \A i \in 1..Len(emitted) : sorted[i] = emitted[f[i]]
          /\ \A i, j \in 1..Len(emitted) :
                i < j => /\ sorted[i].time <= sorted[j].time
                         /\ sorted[i].time = sorted[j].time => f[i] < f[j]

\* C6: when a track has been traversed, the track appended to the output holds
\* the notes emitted during the traversal, rearranged in ascending onset time,
\* notes of equal onset time in the order their closing events emitted them;
\* the tracks appended before are untouched.
C6_StableSortByOnset ==
    [][(pc = "track" /\ pc' = "midi") =>
        LET before == conv.output.tracks
            after == conv'.output.tracks
        IN  /\ Len(after) = Len(before) + 1
            /\ SubSeq(after, 1, Len(before)) = before
            /\ IsStableSortOf(after[Len(after)].notes, conv.note_data_list)
       ]_vars

\* C6 witness: a finished track of two notes in which the first note of the
\* output started first but was closed, hence emitted, last: the sort moved it.
C6_Witness ==
    /\ pc = "midi"
    /\ Len(conv.output.tracks) = 1
    /\ Len(conv.output.tracks[1].notes) = 2
    /\ LET n1 == conv.output.tracks[1].notes[1]
           n2 == conv.output.tracks[1].notes[2]
       IN  /\ n1.time < n2.time
           /\ n1.time + n1.duration > n2.time + n2.duration

\* C7: note enrichment. Every entry of the PitchMap is a position of its pitch
\* (STANDARD_TUNING[6 - string] + fret), and every note emitted by the
\* conversion in progress, and every note of the document it wrote, carries the
\* string and fret of the entry of its pitch, or null for both when the pitch
\* has no entry.
Enriched(n, mapping) ==
    IF n.midi \in DOMAIN mapping
    THEN n.string = Some(mapping[n.midi].string) /\ n.fret = Some(mapping[n.midi].fret)
    ELSE n.string = None /\ n.fret = None

C7_Enrichment ==
    /\ pc \in {"gp5", "midi", "track"} =>
          \A p \in DOMAIN conv.gp5_note_mapping :
              PyIndex(STANDARD_TUNING, 6 - conv.gp5_note_mapping[p].string)
                  + conv.gp5_note_mapping[p].fret = p
    /\ pc \in {"midi", "track"} =>
          \A n \in NotesOf(conv) : Enriched(n, conv.gp5_note_mapping)
    /\ (pc \in {"batch", "done"} /\ out # None) =>
          \A n \in NotesIn(files[out[1]]) : Enriched(n, conv.gp5_note_mapping)

\* C7 witness: the tablature mapped pitch 60 and a MIDI note of pitch 60 was
\* emitted with that string and fret, by a zero-velocity note_on or a note_off.
C7_Witness ==
    /\ pc = "track"
    /\ DOMAIN conv.gp5_note_mapping = {60}
    /\ Len(conv.note_data_list) = 1
    /\ conv.note_data_list[1].midi = 60
    /\ conv.note_data_list[1].string = Some(conv.gp5_note_mapping[60].string)
    /\ conv.note_data_list[1].fret = Some(conv.gp5_note_mapping[60].fret)

\* The locals of parse_gp5_and_midi, stdout apart.
Locals(c) == [c EXCEPT !.stdout = <<>>]

HasBoth(e) ==
    listing[e].is_dir /\ listing[e].gp5_file # None /\ listing[e].midi_file

Skips(e) ==
    Cardinality({i \in 1..Len(conv.stdout) :
                    conv.stdout[i] = [warning |-> "Skipping", folder |-> e]})

\* C9: batch mode, missing companion file. A folder that lacks the .gp5 or the
\* .mid file never gets an output file and is warned about once, when the loop
\* reaches it; when the loop has finished, every such folder has its one
\* warning and every folder with both files has its own <folder>.json, in
\* whatever order the folders were visited.
C9_MissingCompanionSkipped ==
    argc # 4 =>
        /\ DOMAIN files \subseteq {OutName(e) : e \in DOMAIN listing}
        /\ \A e \in DOMAIN listing :
              /\ ~HasBoth(e) => OutName(e) \notin DOMAIN files
              /\ Skips(e) = IF listing[e].is_dir /\ ~HasBoth(e) /\ e \notin todo
                                 /\ pc # "main"
                            THEN 1 ELSE 0
              /\ (pc = "done" /\ HasBoth(e)) => OutName(e) \in DOMAIN files

\* C9 witness: a finished batch over one folder that was skipped and one that
\* was converted into a document with a track.
C9_Witness ==
    /\ argc # 4 /\ pc = "done"
    /\ \E a, b \in DOMAIN listing :
          /\ listing[a].is_dir /\ ~HasBoth(a) /\ Skips(a) = 1
          /\ HasBoth(b)
          /\ DOMAIN files = {OutName(b)}
          /\ Len(files[OutName(b)].tracks) > 0

\* C10: a note_on with velocity 0 is a note_off. In every state a track can be
\* in, a note_off and the note_on of the same pitch, delta time and channel
\* with velocity 0 lead to the same state: the same notes, queues, clock and
\* warnings; so exchanging one for the other anywhere in a track changes nothing.
C10_ZeroVelocityIsNoteOff ==
    pc = "track" =>
        \A off \in NoteOffMsgs :
            \A on \in NoteOnMsgs :
                (on.velocity = 0 /\ on.note = off.note /\ on.time = off.time
                                /\ on.channel = off.channel)
                    => HandleMsg(conv, off) = HandleMsg(conv, on)

\* C10 witness: a track in which a closing event has emitted a note and an
\* onset is queued for the next one.
C10_Witness ==
    /\ pc = "track"
    /\ Len(conv.note_data_list) = 1
    /\ \E p \in Pitches : Len(Queue(conv, p)) = 1
    /\ conv.stdout = <<>>

\* Some pitch has an onset queued: a note_on that no closing event has matched.
UnclosedOnsets(c) == \E p \in Pitches : Queue(c, p) # <<>>

\* What the code does at the end of a track with onsets still queued: the track
\* is appended with the notes emitted so far, sorted; the queued onsets give no
\* note; nothing is printed; the conversion goes on to the next track.
UnclosedOnsetsDropped ==
    [][(pc = "track" /\ pc' = "midi" /\ UnclosedOnsets(conv)) =>
        /\ Len(conv'.output.tracks) = Len(conv.output.tracks) + 1
        /\ conv'.output.tracks[Len(conv'.output.tracks)].notes
              = SortByTime(conv.note_data_list)
        /\ conv'.stdout = conv.stdout
       ]_vars

\* C11: unclosed onsets at track end. When a track ends with onsets still
\* queued, the conversion goes on, the track gets no note for those onsets, and
\* a diagnostic is printed for the violation.
C11_UnclosedOnsetsLogged ==
    [][(pc = "track" /\ pc' = "midi" /\ UnclosedOnsets(conv)) =>
        /\ Len(conv'.output.tracks) = Len(conv.output.tracks) + 1
        /\ conv'.output.tracks[Len(conv'.output.tracks)].notes
              = SortByTime(conv.note_data_list)
        /\ Len(conv'.stdout) > Len(conv.stdout)
       ]_vars

\* The messages of the recorded tracks, one track after the other.
RECURSIVE Concat(_)
Concat(tracks) ==
    IF tracks = <<>> THEN <<>>
    ELSE Concat(SubSeq(tracks, 1, Len(tracks) - 1)) \o tracks[Len(tracks)]

\* The last message of a type in a sequence of messages, None without one.
LastOfType(msgs, type) ==
    LET at == {i \in 1..Len(msgs) : msgs[i].type = type}
    IN  IF at = {} THEN None ELSE Some(msgs[CHOOSE i \in at : \A j \in at : j <= i])

\* meta holds the tempo and time signature of the last such events of msgs.
MetaOfLast(meta, msgs) ==
    LET tempo == LastOfType(msgs, "set_tempo")
        signature == LastOfType(msgs, "time_signature")
    IN  /\ IF tempo = None THEN meta.tempo = None
           ELSE /\ meta.tempo # None
                /\ meta.tempo[1] * tempo[1].tempo = 60000000
        /\ IF signature = None THEN meta.timeSignature = None
           ELSE meta.timeSignature
                    = Some(<<signature[1].numerator, signature[1].denominator>>)

\* C12: metadata last-writer-wins. While the MIDI file is read and in the
\* document written, meta.tempo is the BPM of the last set_tempo and
\* meta.timeSignature the pair of the last time_signature among the messages
\* of all the tracks read so far, in file order; each is null when there was no
\* such message, and a track without set_tempo is timed at 500000 us per beat
\* whatever meta.tempo holds.
C12_MetadataLastWriterWins ==
    /\ pc \in {"midi", "track"} => MetaOfLast(conv.output.meta, Concat(seen.tracks))
    /\ pc = "track" =>
          LET tempo == LastOfType(seen.tracks[Len(seen.tracks)], "set_tempo")
          IN  conv.tempo_usec = IF tempo = None THEN DEFAULT_TEMPO ELSE tempo[1].tempo
    /\ pc = "done" =>
          /\ out[1] \in DOMAIN files
          /\ MetaOfLast(files[out[1]].meta, Concat(seen.tracks))

\* C12 witness: a written document of two tracks, a set_tempo in each with
\* different tempos and a time_signature in neither: meta.tempo is the second
\* track's, meta.timeSignature is null.
C12_Witness ==
    /\ pc = "done"
    /\ Len(seen.tracks) = 2
    /\ Len(seen.tracks[1]) = 1 /\ seen.tracks[1][1].type = "set_tempo"
    /\ Len(seen.tracks[2]) = 1 /\ seen.tracks[2][1].type = "set_tempo"
    /\ seen.tracks[1][1].tempo # seen.tracks[2][1].tempo
    /\ files[out[1]].meta.tempo = Some(Tempo2Bpm(seen.tracks[2][1].tempo))
    /\ files[out[1]].meta.timeSignature = None

\* The messages of the track being read, as recorded.
ThisTrack == seen.tracks[Len(seen.tracks)]

\* The running tempo in effect before the i-th message of a track is handled:
\* that of the last set_tempo among the first i-1 messages, 500000 without one.
TempoBefore(msgs, i) ==
    LET tempo == LastOfType(SubSeq(msgs, 1, i - 1), "set_tempo")
    IN  IF tempo = None THEN 500000 ELSE tempo[1].tempo

\* sum of delta_i * tempo_before_message_i over the first n messages.
RECURSIVE TempoWeightedTicks(_, _)
TempoWeightedTicks(msgs, n) ==
    IF n = 0 THEN 0
    ELSE TempoWeightedTicks(msgs, n - 1) + msgs[n].time * TempoBefore(msgs, n)

\* C13: tempo changes affect only the ticks after them. After every message of
\* a track, absolute_time_seconds (times ticks_per_beat * 10^6) is the sum over
\* the track's messages so far of delta time * the tempo in effect before the
\* message, the delta time of a set_tempo itself counted at the old tempo, and
\* the running tempo is that of the track's last set_tempo, 500000 without one.
C13_TempoAccounting ==
    pc = "track" =>
        /\ conv.absolute_time_seconds = TempoWeightedTicks(ThisTrack, Len(ThisTrack))
        /\ conv.tempo_usec = TempoBefore(ThisTrack, Len(ThisTrack) + 1)

\* C13 witness: a set_tempo to 250000 arriving one tick into the track, then
\* one more tick: 1 * 500000 + 1 * 250000.
C13_Witness ==
    /\ pc = "track"
    /\ Len(ThisTrack) = 2
    /\ ThisTrack[1].type = "set_tempo" /\ ThisTrack[1].time = 1 /\ ThisTrack[1].tempo = 250000
    /\ ThisTrack[2].time = 1
    /\ conv.absolute_time_seconds = 750000

\* A matcher that has seen nothing, holding the PitchMap given.
FreshMatcher(mapping) ==
    [stdout |-> <<>>,
     gp5_note_mapping |-> mapping,
     output |-> [meta |-> [title |-> None, tempo |-> None, timeSignature |-> None,
                           tuning |-> STANDARD_TUNING],
                 tracks |-> <<>>],
     note_data_list |-> <<>>,
     note_queue |-> [k \in {} |-> {}],
     absolute_time_seconds |-> 0,
     absolute_ticks |-> 0,
     tempo_usec |-> 500000,
     channel_percussion |-> {}]

\* The matcher c after the first n messages of msgs.
RECURSIVE Replay(_, _, _)
Replay(c, msgs, n) ==
    IF n = 0 THEN c ELSE HandleMsg(Replay(c, msgs, n - 1), msgs[n])

\* The matcher state of c is that of alone, and what c printed since the track
\* began is what alone printed.
SameMatcher(c, alone) ==
    /\ c.note_data_list = alone.note_data_list
    /\ c.note_queue = alone.note_queue
    /\ c.absolute_time_seconds = alone.absolute_time_seconds
    /\ c.absolute_ticks = alone.absolute_ticks
    /\ c.tempo_usec = alone.tempo_usec
    /\ SubSeq(c.stdout, seen.stdout0 + 1, Len(c.stdout)) = alone.stdout

\* C14: per-track isolation. After every message of every track, the clocks,
\* the running tempo, the onset queues, the notes emitted and the warnings
\* printed for the track are those of a matcher that starts at ticks 0, seconds
\* 0, tempo 500000 and empty queues and reads this track's messages alone with
\* the same PitchMap; and the notes of a finished track are that matcher's
\* notes, sorted. Nothing of an earlier track reaches a later one.
C14_PerTrackIsolation ==
    /\ pc = "track" =>
          SameMatcher(conv, Replay(FreshMatcher(conv.gp5_note_mapping),
                                   ThisTrack, Len(ThisTrack)))
    /\ (pc = "midi" /\ seen.tracks # <<>>) =>
          /\ Len(conv.output.tracks) = Len(seen.tracks)
          /\ \A t \in 1..Len(seen.tracks) :
                conv.output.tracks[t].notes
                    = SortByTime(Replay(FreshMatcher(conv.gp5_note_mapping),
                                        seen.tracks[t], Len(seen.tracks[t])).note_data_list)

\* C14 witness: the first track left an onset unclosed; in the second track a
\* closing event found no onset: the warning was printed, no note was emitted.
C14_Witness ==
    /\ pc = "track"
    /\ Len(seen.tracks) = 2
    /\ \E i \in 1..Len(seen.tracks[1]) :
          seen.tracks[1][i].type = "note_on" /\ seen.tracks[1][i].velocity > 0
    /\ Len(ThisTrack) = 1 /\ ThisTrack[1].type = "note_off"
    /\ conv.note_data_list = <<>>
    /\ Len(conv.stdout) = 1

\* The sum of the delta times of the first n messages.
RECURSIVE TicksTo(_, _)
TicksTo(msgs, n) == IF n = 0 THEN 0 ELSE TicksTo(msgs, n - 1) + msgs[n].time

IsOnset(m, p) == m.type = "note_on" /\ m.velocity > 0 /\ m.note = p
IsClosing(m, p) ==
    /\ m.type = "note_off" \/ (m.type = "note_on" /\ m.velocity = 0)
    /\ m.note = p

\* The places of the onsets and of the closing events of pitch p among the
\* first n messages.
OnsetsTo(msgs, p, n) == {i \in 1..n : IsOnset(msgs[i], p)}
ClosingsTo(msgs, p, n) == {i \in 1..n : IsClosing(msgs[i], p)}

\* How many closing events of pitch p among the first n messages found an
\* onset waiting: a closing event finds one when more onsets than matched
\* closing events came before it.
RECURSIVE MatchedTo(_, _, _)
MatchedTo(msgs, p, n) ==
    IF n = 0 THEN 0
    ELSE LET before == MatchedTo(msgs, p, n - 1)
         IN  IF IsClosing(msgs[n], p) /\ Cardinality(OnsetsTo(msgs, p, n - 1)) > before
             THEN before + 1
             ELSE before

\* The place of the k-th onset of pitch p, and of the k-th closing event of
\* pitch p that found an onset.
OnsetAt(msgs, p, k) ==
    CHOOSE i \in OnsetsTo(msgs, p, Len(msgs)) : Cardinality(OnsetsTo(msgs, p, i)) = k
MatchAt(msgs, p, k) ==
    CHOOSE j \in 1..Len(msgs) : MatchedTo(msgs, p, j) = k /\ MatchedTo(msgs, p, j - 1) = k - 1

\* The pairs of pitch p whose onset was not sent on channel 9, by number.
Audible(msgs, p) ==
    {k \in 1..MatchedTo(msgs, p, Len(msgs)) : msgs[OnsetAt(msgs, p, k)].channel # 9}

\* The n-th of them.
AudibleAt(msgs, p, n) ==
    CHOOSE k \in Audible(msgs, p) : Cardinality({x \in Audible(msgs, p) : x <= k}) = n

\* The notes of pitch p in a note list, in the list's order.
NotesOfPitch(list, p) == LET HasPitch(n) == n.midi = p IN SelectSeq(list, HasPitch)

\* C15: tick accounting. After every message of a track and for every pitch,
\* the notes emitted are, in order, the pairs (k-th onset, k-th closing event
\* that found an onset) whose onset was not on channel 9; each note's ticks is
\* the sum of the delta times of all the track's messages, of every type, up to
\* and including its note_on, and ticks + durationTicks is that sum up to and
\* including its closing event.
C15_TickAccounting ==
    pc = "track" =>
        \A p \in Pitches :
            LET notes == NotesOfPitch(conv.note_data_list, p)
            IN  /\ Len(notes) = Cardinality(Audible(ThisTrack, p))
                /\ \A n \in 1..Len(notes) :
                      LET k == AudibleAt(ThisTrack, p, n)
                      IN  /\ notes[n].ticks = TicksTo(ThisTrack, OnsetAt(ThisTrack, p, k))
                          /\ notes[n].ticks + notes[n].durationTicks
                                = TicksTo(ThisTrack, MatchAt(ThisTrack, p, k))

\* C15 witness: a message of an ignored type one tick into the track, the
\* note_on one tick later and its note_off one tick after that: ticks 2,
\* durationTicks 1.
C15_Witness ==
    /\ pc = "track"
    /\ Len(ThisTrack) = 3
    /\ ThisTrack[1].type = "control_change" /\ ThisTrack[1].time = 1
    /\ ThisTrack[2].type = "note_on" /\ ThisTrack[2].time = 1
    /\ ThisTrack[3].type = "note_off" /\ ThisTrack[3].time = 1
    /\ Len(conv.note_data_list) = 1
    /\ conv.note_data_list[1].ticks = 2
    /\ conv.note_data_list[1].durationTicks = 1

\* The recorded tablature notes with the notes of percussion tracks left out.
WithoutPercussion(notes) ==
    LET Pitched(n) == ~n.isPercussionTrack IN SelectSeq(notes, Pitched)

\* The process after the first n notes of a tablature whose tracks are all
\* pitched, each going through the body of the note loop.
RECURSIVE TabReplay(_, _)
TabReplay(notes, n) ==
    IF n = 0 THEN FreshMatcher([k \in {} |-> {}])
    ELSE TabNote(TabReplay(notes, n - 1), notes[n])

\* C16: a tablature track flagged as percussion contributes nothing. While the
\* tablature is read and afterwards, the PitchMap and the warnings printed are
\* those of the same tablature with the notes of its percussion tracks removed:
\* such a note inserts no entry and triggers no conflict warning, for itself or
\* for a later note of its pitch.
C16_PercussionTrackAbsent ==
    pc \in {"gp5", "midi", "done"} =>
        LET pitched == WithoutPercussion(seen.notes)
            absent == TabReplay(pitched, Len(pitched))
        IN  /\ conv.gp5_note_mapping = absent.gp5_note_mapping
            /\ conv.stdout = absent.stdout

\* C16 witness: a percussion track played string 7 fret 0 and then a pitched
\* track played the same pitch at string 1 fret 0: the map holds string 1 and
\* nothing was printed.
C16_Witness ==
    /\ pc = "gp5"
    /\ seen.notes = <<[isPercussionTrack |-> TRUE, string |-> 7, value |-> 0],
                      [isPercussionTrack |-> FALSE, string |-> 1, value |-> 0]>>
    /\ conv.gp5_note_mapping = (64 :> [string |-> 1, fret |-> 0])
    /\ conv.stdout = <<>>

\* A step that reads a tablature note of a pitched track.
ReadsPitchedNote ==
    /\ pc = "gp5"
    /\ Len(seen'.notes) = Len(seen.notes) + 1
    /\ ~seen'.notes[Len(seen'.notes)].isPercussionTrack

\* A note out of range: string number outside 1..6 or fret outside 0..24.
OutOfRange(n) == n.string \notin 1..6 \/ n.value \notin 0..24

\* C17 as stated: a note whose string number is outside 1..6 or whose fret is
\* outside 0..24 raises no error: a pitch is computed and entered or compared,
\* and the traversal continues.
C17_OutOfRangeSilent ==
    [][(ReadsPitchedNote /\ OutOfRange(seen'.notes[Len(seen'.notes)])) =>
          /\ pc' = "gp5"
          /\ conv'.gp5_note_mapping # [k \in {} |-> {}]
       ]_vars

\* The element tuning[6 - string] names for a string in 1..12: counted from
\* the low E for strings 1..6, from the end of the list (negative index) for
\* strings 7..12, so that string 7 reads the high E again.
TuningOfString(string) ==
    IF string <= 6 THEN STANDARD_TUNING[7 - string] ELSE STANDARD_TUNING[13 - string]

\* C17 amended: values out of range are not checked. A note of any fret whose
\* string number is in 1..12 raises no error: its pitch is tuning[6 - string] +
\* fret, with the index counted from the end of the tuning for strings 7..12;
\* the pitch gets the note's string and fret if it had no entry, keeps its
\* entry otherwise, and the traversal continues. A string number of 0 or less,
\* or of 13 or more, raises IndexError: the run ends there, the map is left as
\* it was and no file is written.
C17_OutOfRangePropagation ==
    [][ReadsPitchedNote =>
          LET n == seen'.notes[Len(seen'.notes)]
          IN  IF n.string \in 1..12
              THEN LET p == TuningOfString(n.string) + n.value
                   IN  /\ pc' = "gp5"
                       /\ DOMAIN conv'.gp5_note_mapping = DOMAIN conv.gp5_note_mapping \cup {p}
                       /\ conv'.gp5_note_mapping[p] =
                             IF p \in DOMAIN conv.gp5_note_mapping
                             THEN conv.gp5_note_mapping[p]
                             ELSE [string |-> n.string, fret |-> n.value]
              ELSE /\ pc' = "raised"
                   /\ conv' = conv
                   /\ files' = files /\ files = [k \in {} |-> {}]
       ]_vars

\* C17 witness: string 7 at fret 25 went into the map as pitch 64 + 25, string
\* 1 at fret -1 as pitch 64 - 1, and the conversion went on to the MIDI file.
C17_Witness ==
    /\ pc = "midi"
    /\ DOMAIN conv.gp5_note_mapping = {63, 89}
    /\ conv.gp5_note_mapping[89] = [string |-> 7, fret |-> 25]
    /\ conv.gp5_note_mapping[63] = [string |-> 1, fret |-> -1]

\* A step in which a parser (or the note loop of Part 1) does not return: from
\* the call of guitarpro.parse anything but entering Part 1, from Part 1
\* anything but the next note or the MIDI file parsed.
ParseFails ==
    \/ pc = "parse_gp5" /\ pc' # "gp5"
    \/ pc = "gp5" /\ pc' \notin {"gp5", "midi"}

\* C18: malformed source file. When parsing the tablature or the MIDI file of a
\* song fails, the run ends there: no file exists for that song, the files
\* written for earlier folders are as they were, nothing more is printed, and
\* no step follows, so no folder still to come is processed. A file once
\* written is never changed or removed.
C18_ParseFailureAborts ==
    [][/\ ParseFails =>
            /\ pc' = "raised"
            /\ out[1] \notin DOMAIN files'
            /\ files' = files
            /\ todo' = todo
            /\ conv'.stdout = conv.stdout
       /\ pc # "raised"
       /\ \A f \in DOMAIN files : f \in DOMAIN files' /\ files'[f] = files[f]
      ]_vars

\* C18 witness: a batch over three folders with both files: the first was
\* converted and written, the second failed to parse, the third was never
\* reached and has no file.
C18_Witness ==
    /\ argc # 4 /\ pc = "raised"
    /\ \A e \in DOMAIN listing : HasBoth(e)
    /\ Cardinality(DOMAIN files) = 1
    /\ out[1] \notin DOMAIN files
    /\ Cardinality(todo) = 1
    /\ \A e \in todo : OutName(e) \notin DOMAIN files

\* C19: matching is keyed by pitch only. In every state a track can be in, a
\* closing event of pitch p sent on any channel removes the oldest queued onset
\* of p whatever channel that onset was sent on, and leaves the queues of the
\* other pitches alone; whether a note is emitted depends on the channel of the
\* removed onset only: not 9, the note takes the onset's start and the closing
\* event's time as its end, even when the closing event is on channel 9; 9, no
\* note is emitted, even when the closing event is on another channel.
C19_MatchingByPitchOnly ==
    pc = "track" =>
        \A p \in Pitches :
            \A m \in {x \in NoteOnMsgs \cup NoteOffMsgs : IsClosing(x, p)} :
                LET q == Queue(conv, p)
                    r == HandleMsg(conv, m)
                IN  q # <<>> =>
                        /\ Queue(r, p) = Tail(q)
                        /\ \A o \in Pitches \ {p} : Queue(r, o) = Queue(conv, o)
                        /\ r.stdout = conv.stdout
                        /\ r.absolute_ticks = conv.absolute_ticks + m.time
                        /\ IF Head(q).channel # 9
                           THEN /\ Len(r.note_data_list) = Len(conv.note_data_list) + 1
                                /\ SubSeq(r.note_data_list, 1, Len(conv.note_data_list))
                                      = conv.note_data_list
                                /\ ClosesOnset(r.note_data_list[Len(r.note_data_list)],
                                               Head(q), r)
                           ELSE r.note_data_list = conv.note_data_list

\* C19 witness: onsets of one pitch on channel 0 and then on channel 9, and a
\* note_off sent on channel 9: it closed the onset of channel 0 into a note and
\* left the onset of channel 9 queued.
C19_Witness ==
    /\ pc = "track"
    /\ Len(ThisTrack) = 3
    /\ ThisTrack[1].type = "note_on" /\ ThisTrack[1].velocity > 0 /\ ThisTrack[1].channel = 0
    /\ ThisTrack[2].type = "note_on" /\ ThisTrack[2].velocity > 0 /\ ThisTrack[2].channel = 9
    /\ ThisTrack[3].type = "note_off" /\ ThisTrack[3].channel = 9
    /\ ThisTrack[1].note = ThisTrack[2].note /\ ThisTrack[2].note = ThisTrack[3].note
    /\ Len(conv.note_data_list) = 1
    /\ Len(Queue(conv, ThisTrack[1].note)) = 1
    /\ Head(Queue(conv, ThisTrack[1].note)).channel = 9

\* Counts for pitch p in the track being read: the notes emitted, the
\* channel-9 onsets popped and dropped (the pairs whose onset was on channel
\* 9), and the warnings printed since the track began.
EmittedFor(p) == Len(NotesOfPitch(conv.note_data_list, p))
DroppedFor(p) ==
    MatchedTo(ThisTrack, p, Len(ThisTrack)) - Cardinality(Audible(ThisTrack, p))
WarnedFor(p) ==
    Cardinality({i \in (seen.stdout0 + 1)..Len(conv.stdout) :
                    conv.stdout[i] = UnmatchedWarning(p)})

\* C20: conservation. After every message of a track and for every pitch p,
\* the onsets of p so far are the onsets queued plus the notes emitted plus the
\* channel-9 onsets dropped, and the closing events of p so far are the notes
\* emitted plus the channel-9 onsets dropped plus the unmatched warnings; so
\* no onset is consumed twice and no closing event emits more than one note.
C20_Conservation ==
    pc = "track" =>
        /\ \A p \in Pitches :
              /\ Cardinality(OnsetsTo(ThisTrack, p, Len(ThisTrack)))
                    = Len(Queue(conv, p)) + EmittedFor(p) + DroppedFor(p)
              /\ Cardinality(ClosingsTo(ThisTrack, p, Len(ThisTrack)))
                    = EmittedFor(p) + DroppedFor(p) + WarnedFor(p)
              /\ DroppedFor(p) >= 0
        /\ \A i \in 1..Len(conv.note_data_list) : conv.note_data_list[i].midi \in Pitches
        /\ \A i \in (seen.stdout0 + 1)..Len(conv.stdout) :
              \E p \in Pitches : conv.stdout[i] = UnmatchedWarning(p)

\* C20 witness: three messages of one pitch, an onset on channel 9 and two
\* closing events: the onset was dropped by the first, the second was warned
\* about; nothing is queued and nothing was emitted.
C20_Witness ==
    /\ pc = "track"
    /\ Len(ThisTrack) = 3
    /\ \E p \in Pitches :
          /\ Cardinality(OnsetsTo(ThisTrack, p, 3)) = 1
          /\ Cardinality(ClosingsTo(ThisTrack, p, 3)) = 2
          /\ Queue(conv, p) = <<>>
          /\ EmittedFor(p) = 0
          /\ DroppedFor(p) = 1
          /\ WarnedFor(p) = 1

====
